---- MODULE Spec2Model ----
(***************************************************************************)
(* Bandwidth allocation by the fractional-knapsack greedy rule, as         *)
(* implemented by main() and compareTasks() of code.c.                     *)
(*                                                                         *)
(* Numbers.  The program's doubles (totalBandwidth, demand, allocated) are *)
(* modelled on the integer grid, where every sum and difference the        *)
(* program forms is exact in IEEE double arithmetic.  The two quotients    *)
(* the program forms (ratio = priority/demand, fraction =                  *)
(* allocated/demand) are kept as exact rationals; on the bounded grid two  *)
(* different rationals never round to the same double, so comparing the    *)
(* rationals is comparing the doubles.  totalPriorityValue is a double     *)
(* and can exceed 2^31, so it is kept as hi*Limb + lo + num/den.           *)
(***************************************************************************)
EXTENDS Integers, Sequences, FiniteSets

\* pc                  where main() stands
\* totalBandwidth      line 74, the remaining pool
\* initialBandwidth    line 75, the total read at line 82
\* totalPriorityValue  line 76, the value achieved
\* numTasks            line 73, the count read at line 86
\* tasks               line 95, the array of struct Task (lines 36-42)
\* i                   the index of the input loop (103) and of the pass (139)
\* report              what was printed: notices, summary line, table
\* exitStatus          what main() returned, -1 while it runs
VARIABLES pc, totalBandwidth, initialBandwidth, totalPriorityValue,
          numTasks, tasks, i, report, exitStatus

vars == <<pc, totalBandwidth, initialBandwidth, totalPriorityValue,
          numTasks, tasks, i, report, exitStatus>>

(* ---- bounds of the explored inputs ------------------------------------ *)
MaxTasks == 3
MaxDemand == 2
MaxPriority == 2
MaxBandwidth == 3
BigPriority == 2000000000

(* ---- program constants ------------------------------------------------- *)
SENTINEL == 1000000000

(* ---- exact arithmetic for the doubles ---------------------------------- *)
Limb == 32768 * 32768

\* a double holding 0.0
VZero == [hi |-> 0, lo |-> 0, num |-> 0, den |-> 1]

\* v + p for an int p
VAddInt(v, p) ==
    LET s == v.lo + (p % Limb)
    IN  [v EXCEPT !.hi = v.hi + (p \div Limb) + (s \div Limb),
                  !.lo = s % Limb]

\* v + (a / d) * p for 0 <= a, 0 < d
VAddFraction(v, a, d, p) ==
    LET r  == a * (p % d)
        w  == a * (p \div d) + (r \div d)
        n2 == v.num * d + (r % d) * v.den
        d2 == v.den * d
    IN  [VAddInt(VAddInt(v, w), n2 \div d2) EXCEPT !.num = n2 % d2, !.den = d2]

\* the rational a is strictly below the rational b (denominators positive)
RatioLess(a, b) ==
    \/ a.num \div a.den < b.num \div b.den
    \/ /\ a.num \div a.den = b.num \div b.den
       /\ (a.num % a.den) * b.den < (b.num % b.den) * a.den

(* ---- the task structure and its ratio ---------------------------------- *)
\* lines 119-127: the priority-to-demand ratio of a task
computeRatio(demand, priority) ==
    IF demand > 0
    THEN [num |-> priority, den |-> demand]
    ELSE IF priority > 0 THEN [num |-> SENTINEL, den |-> 1]
                         ELSE [num |-> 0, den |-> 1]

\* line 130: the allocated bandwidth a new task starts with
initialAllocated == 0

\* struct Task as filled by one iteration of the input loop
Task(name, demand, priority) ==
    [name |-> name, demand |-> demand, priority |-> priority,
     ratio |-> computeRatio(demand, priority), allocated |-> initialAllocated]

\* compareTasks: descending by ratio, 0 on equal ratios
compareTasks(taskA, taskB) ==
    IF RatioLess(taskB.ratio, taskA.ratio) THEN -1
    ELSE IF RatioLess(taskA.ratio, taskB.ratio) THEN 1
    ELSE 0

(* ---- qsort -------------------------------------------------------------- *)
\* the positions among `left` whose task the comparator lets stand first:
\* it is not to come after any other task of `left`
First(s, left) ==
    {k \in left : \A j \in left : compareTasks(s[k], s[j]) <= 0}

RECURSIVE Arrangements(_, _)
\* the arrangements of the tasks at positions `left` in which no task
\* stands before one the comparator puts ahead of it
Arrangements(s, left) ==
    IF left = {} THEN {<<>>}
    ELSE UNION {{<<s[k]>> \o t : t \in Arrangements(s, left \ {k})} :
                   k \in First(s, left)}

\* qsort(tasks, numTasks, ..., compareTasks): every arrangement of the array
\* that is ordered by the comparator; the order of elements that compare
\* equal is unspecified (C11 7.22.5.2p4)
qsort(s) == Arrangements(s, 1..Len(s))

(* ---- the allocation loop's tests and assignments ----------------------- *)
\* the test of line 88 with < in place of <=
noTasksNegativeOnly(n) == n < 0

\* line 88
noTasks(n) == n <= 0

\* line 140
exhausted(bandwidth) == bandwidth <= 0

\* line 148
fullDemandMet(task, bandwidth) == task.demand <= bandwidth

\* line 150 giving the task the whole pool, as line 156 does
allocateFullPool(task, bandwidth) == [task EXCEPT !.allocated = bandwidth]

\* lines 150-152
allocateFull(task, bandwidth) == [task EXCEPT !.allocated = task.demand]

\* line 151 with += in place of -=
remainingAfterFullAdded(task, bandwidth) == bandwidth + task.demand

remainingAfterFull(task, bandwidth) == bandwidth - task.demand

valueAfterFull(task, value) == VAddInt(value, task.priority)

\* lines 156-162
allocatePartial(task, bandwidth) == [task EXCEPT !.allocated = bandwidth]

\* line 160 crediting the whole priority
valueAfterPartialWhole(task, bandwidth, value) == VAddInt(value, task.priority)

valueAfterPartial(task, bandwidth, value) ==
    VAddFraction(value, bandwidth, task.demand, task.priority)

\* line 162 left out
remainingAfterPartialKept(task, bandwidth) == bandwidth

remainingAfterPartial(task, bandwidth) == 0

(* ---- the report --------------------------------------------------------- *)
NoReport == [messages |-> <<>>, summary |-> <<>>, header |-> FALSE, rows |-> <<>>]

\* lines 180-183: allocated/initialBandwidth*100 as a rational, or 0
percentageShare(task, initial) ==
    IF initial > 0 THEN [num |-> task.allocated * 100, den |-> initial]
                   ELSE [num |-> 0, den |-> 1]

\* lines 185-190
Row(task, initial) ==
    [name |-> task.name, priority |-> task.priority, demand |-> task.demand,
     allocated |-> task.allocated, share |-> percentageShare(task, initial)]

\* lines 169-170
Summary(initial, bandwidth, value) ==
    [total |-> initial, used |-> initial - bandwidth, value |-> value]

(* ---- the program -------------------------------------------------------- *)
Init ==
    /\ pc = "readBandwidth"
    /\ totalBandwidth = 0
    /\ initialBandwidth = 0
    /\ totalPriorityValue = VZero
    /\ numTasks = 0
    /\ tasks = <<>>
    /\ i = 0
    /\ report = NoReport
    /\ exitStatus = -1

\* lines 80-83
ReadBandwidth(Bandwidths) ==
    /\ pc = "readBandwidth"
    /\ \E b \in Bandwidths :
          /\ totalBandwidth' = b
          /\ initialBandwidth' = b
    /\ pc' = "readCount"
    /\ UNCHANGED <<totalPriorityValue, numTasks, tasks, i, report, exitStatus>>

\* lines 85-91
ReadCount ==
    /\ pc = "readCount"
    /\ \E n \in (-1)..MaxTasks :
          /\ numTasks' = n
          /\ IF noTasks(n)
             THEN /\ report' = [report EXCEPT !.messages =
                                    Append(@, "No tasks to allocate. Exiting.")]
                  /\ exitStatus' = 0
                  /\ pc' = "done"
             ELSE /\ pc' = "malloc"
                  /\ UNCHANGED <<report, exitStatus>>
    /\ UNCHANGED <<totalBandwidth, initialBandwidth, totalPriorityValue, tasks, i>>

\* lines 95-99
Malloc ==
    /\ pc = "malloc"
    /\ \E ok \in BOOLEAN :
          IF ok
          THEN /\ pc' = "readTasks"
               /\ i' = 0
               /\ UNCHANGED <<report, exitStatus>>
          ELSE /\ report' = [report EXCEPT !.messages =
                    Append(@, "Error: Failed to allocate memory for tasks.")]
               /\ exitStatus' = 1
               /\ pc' = "done"
               /\ UNCHANGED i
    /\ UNCHANGED <<totalBandwidth, initialBandwidth, totalPriorityValue,
                   numTasks, tasks>>

\* lines 103-131, one iteration; the name typed for task i is its position
ReadTask(Demands, Priorities) ==
    /\ pc = "readTasks"
    /\ i < numTasks
    /\ \E d \in Demands, p \in Priorities :
          tasks' = Append(tasks, Task(i + 1, d, p))
    /\ i' = i + 1
    /\ UNCHANGED <<pc, totalBandwidth, initialBandwidth, totalPriorityValue,
                   numTasks, report, exitStatus>>

\* lines 133-135 (reached when the input loop ends)
Sort ==
    /\ pc = "readTasks"
    /\ ~(i < numTasks)
    /\ tasks' \in qsort(tasks)
    /\ i' = 0
    /\ pc' = "allocate"
    /\ UNCHANGED <<totalBandwidth, initialBandwidth, totalPriorityValue,
                   numTasks, report, exitStatus>>

\* lines 140-143
AllocateStop ==
    /\ pc = "allocate"
    /\ i < numTasks
    /\ exhausted(totalBandwidth)
    /\ pc' = "report"
    /\ UNCHANGED <<totalBandwidth, initialBandwidth, totalPriorityValue,
                   numTasks, tasks, i, report, exitStatus>>

\* lines 148-153
AllocateFull ==
    /\ pc = "allocate"
    /\ i < numTasks
    /\ ~exhausted(totalBandwidth)
    /\ fullDemandMet(tasks[i + 1], totalBandwidth)
    /\ tasks' = [tasks EXCEPT ![i + 1] = allocateFull(@, totalBandwidth)]
    /\ totalBandwidth' = remainingAfterFull(tasks[i + 1], totalBandwidth)
    /\ totalPriorityValue' = valueAfterFull(tasks[i + 1], totalPriorityValue)
    /\ i' = i + 1
    /\ UNCHANGED <<pc, initialBandwidth, numTasks, report, exitStatus>>

\* lines 154-164
AllocatePartial ==
    /\ pc = "allocate"
    /\ i < numTasks
    /\ ~exhausted(totalBandwidth)
    /\ ~fullDemandMet(tasks[i + 1], totalBandwidth)
    /\ tasks' = [tasks EXCEPT ![i + 1] = allocatePartial(@, totalBandwidth)]
    /\ totalPriorityValue' =
          valueAfterPartial(tasks[i + 1], totalBandwidth, totalPriorityValue)
    /\ totalBandwidth' = remainingAfterPartial(tasks[i + 1], totalBandwidth)
    /\ i' = i + 1
    /\ UNCHANGED <<pc, initialBandwidth, numTasks, report, exitStatus>>

\* line 139, the loop condition failing
AllocateEnd ==
    /\ pc = "allocate"
    /\ ~(i < numTasks)
    /\ pc' = "report"
    /\ UNCHANGED <<totalBandwidth, initialBandwidth, totalPriorityValue,
                   numTasks, tasks, i, report, exitStatus>>

\* lines 167-198
Report ==
    /\ pc = "report"
    /\ report' = [report EXCEPT
          !.summary = <<Summary(initialBandwidth, totalBandwidth,
                                totalPriorityValue)>>,
          !.header = TRUE,
          !.rows = [k \in 1..numTasks |-> Row(tasks[k], initialBandwidth)]]
    /\ exitStatus' = 0
    /\ pc' = "done"
    /\ UNCHANGED <<totalBandwidth, initialBandwidth, totalPriorityValue,
                   numTasks, tasks, i>>

\* the steps that do not read input
Compute ==
    \/ ReadCount
    \/ Malloc
    \/ Sort
    \/ AllocateStop
    \/ AllocateFull
    \/ AllocatePartial
    \/ AllocateEnd
    \/ Report

\* runs on the inputs the interface asks for: bandwidth >= 0, demand >= 0,
\* priority >= 0
Next ==
    \/ ReadBandwidth(0..MaxBandwidth)
    \/ ReadTask(0..MaxDemand, 0..MaxPriority)
    \/ Compute

Spec == Init /\ [][Next]_vars

\* runs on non-negative inputs with priorities up to the top of the int range
NextWide ==
    \/ ReadBandwidth(0..MaxBandwidth)
    \/ ReadTask(0..MaxDemand, (0..MaxPriority) \cup {BigPriority})
    \/ Compute

SpecWide == Init /\ [][NextWide]_vars

\* runs on any input scanf accepts: negative numbers, and priorities up to
\* the top of the int range
NextAny ==
    \/ ReadBandwidth((-1)..MaxBandwidth)
    \/ ReadTask((-1)..MaxDemand, ((-1)..MaxPriority) \cup {BigPriority})
    \/ Compute

SpecAny == Init /\ [][NextAny]_vars

(* ---- quantities the properties speak of --------------------------------- *)
RECURSIVE SumDemand(_), SumAllocated(_), SumPriority(_), Scale(_)

SumDemand(s) == IF s = <<>> THEN 0 ELSE Head(s).demand + SumDemand(Tail(s))

SumAllocated(s) ==
    IF s = <<>> THEN 0 ELSE Head(s).allocated + SumAllocated(Tail(s))

SumPriority(s) == IF s = <<>> THEN 0 ELSE Head(s).priority + SumPriority(Tail(s))

\* a common denominator of the fractions x/demand of the tasks of s
Scale(s) ==
    IF s = <<>> THEN 1
    ELSE (IF Head(s).demand > 0 THEN Head(s).demand ELSE 1) * Scale(Tail(s))

\* totalPriorityValue as one fraction (for values inside the integer range)
Plain(v) == [num |-> (v.hi * Limb + v.lo) * v.den + v.num, den |-> v.den]

\* totalPriorityValue = n / d
ValueIs(n, d) == Plain(totalPriorityValue).num * d = n * Plain(totalPriorityValue).den

\* totalPriorityValue >= n / d, d > 0
ValueAtLeast(n, d) ==
    Plain(totalPriorityValue).num * d >= n * Plain(totalPriorityValue).den

\* the allocation pass is over
AfterPass == pc \in {"report", "done"} /\ numTasks > 0 /\ Len(tasks) = numTasks

\* the tasks have been ranked
Ranked == pc \in {"allocate", "report", "done"} /\ Len(tasks) = numTasks

FullySatisfied(t) == t.demand > 0 /\ t.allocated = t.demand

PartlySatisfied(t) == 0 < t.allocated /\ t.allocated < t.demand

ZeroDemandPositive(t) == t.demand = 0 /\ t.priority > 0

(* ---- C1 ------------------------------------------------------------------ *)
\* C1 (conservation): on non-negative inputs, once the allocation pass is
\* over the allocated amounts sum to at most the initial total bandwidth,
\* and to exactly the initial total bandwidth if and only if the demands
\* sum to at least the initial total bandwidth.
C1_Conservation ==
    pc \in {"report", "done"} =>
        /\ SumAllocated(tasks) <= initialBandwidth
        /\ (SumAllocated(tasks) = initialBandwidth
               <=> SumDemand(tasks) >= initialBandwidth)

\* three tasks, the third cut short by the pool running out
C1_Witness ==
    /\ pc = "done"
    /\ Len(tasks) = 3
    /\ FullySatisfied(tasks[1])
    /\ PartlySatisfied(tasks[2])
    /\ SumAllocated(tasks) = initialBandwidth
    /\ SumDemand(tasks) > initialBandwidth

(* ---- C2 ------------------------------------------------------------------ *)
\* C2 (bounds): on non-negative inputs, in every state of the run (input,
\* after ranking, after each step of the allocation pass, at the report)
\* every task has 0 <= allocated <= demand.
C2_Bounds ==
    \A k \in 1..Len(tasks) :
        0 <= tasks[k].allocated /\ tasks[k].allocated <= tasks[k].demand

\* in the middle of the pass, one task served in full and one in part
C2_Witness ==
    /\ pc = "allocate"
    /\ i = 2
    /\ Len(tasks) = 3
    /\ FullySatisfied(tasks[1])
    /\ PartlySatisfied(tasks[2])

(* ---- C3 ------------------------------------------------------------------ *)
\* every other way to hand out the bandwidth: x[k] units to task k, within
\* each demand and within the total.  With whole-number demands and total
\* the best fractional allocation is reached on whole numbers.
Feasible ==
    {x \in [1..Len(tasks) -> 0..MaxDemand] :
        /\ \A k \in 1..Len(tasks) : x[k] <= tasks[k].demand
        /\ SumAllocated([k \in 1..Len(tasks) |-> [allocated |-> x[k]]])
              <= initialBandwidth}

RECURSIVE ScaledValue(_, _, _)
\* Scale(tasks) times the value of allocation x over tasks k..Len(tasks),
\* a zero-demand task counting its full priority
ScaledValue(x, k, scale) ==
    IF k > Len(tasks) THEN 0
    ELSE (IF tasks[k].demand = 0
          THEN tasks[k].priority * scale
          ELSE x[k] * tasks[k].priority * (scale \div tasks[k].demand))
         + ScaledValue(x, k + 1, scale)

\* C3 (optimality): on non-negative inputs, the value achieved by ranking and
\* allocating greedily is at least the value sum (x[k]/demand[k])*priority[k]
\* of every feasible allocation x, a zero-demand task counting its full
\* priority.
C3_Optimality ==
    AfterPass =>
        \A x \in Feasible :
            ValueAtLeast(ScaledValue(x, 1, Scale(tasks)), Scale(tasks))

(* ---- C4 ------------------------------------------------------------------ *)
\* C4 (zero-demand credit): in every run on non-negative inputs, a task with
\* demand 0 and priority P > 0 ends with allocated = 0 and with P added to
\* the value achieved: the value is the full priority of every such task
\* plus (allocated/demand)*priority of the others.
C4_ZeroDemandCredit ==
    AfterPass =>
        /\ \A k \in 1..Len(tasks) :
              ZeroDemandPositive(tasks[k]) => tasks[k].allocated = 0
        /\ ValueIs(ScaledValue([k \in 1..Len(tasks) |-> tasks[k].allocated],
                               1, Scale(tasks)),
                   Scale(tasks))

(* ---- C5 ------------------------------------------------------------------ *)
\* C5 (zero-demand ranks first): after ranking, every task with demand 0 and
\* priority > 0 stands before every task with demand > 0, for every
\* positive demand and every priority an int can hold.
C5_ZeroDemandFirst ==
    Ranked =>
        \A a, b \in 1..Len(tasks) :
            ZeroDemandPositive(tasks[a]) /\ tasks[b].demand > 0 => a < b

(* ---- C6 ------------------------------------------------------------------ *)
\* C6 (stable ranking): the ranked array is in descending order of ratio
\* and tasks of equal ratio keep their input order; no other order comes
\* out of the rank step.
C6_StableRanking ==
    Ranked =>
        \A a, b \in 1..Len(tasks) :
            a < b =>
                \/ RatioLess(tasks[b].ratio, tasks[a].ratio)
                \/ /\ ~RatioLess(tasks[a].ratio, tasks[b].ratio)
                   /\ tasks[a].name < tasks[b].name

(* ---- C7 ------------------------------------------------------------------ *)
\* C7 (no negative outputs): whatever the inputs, negative ones included, a
\* run that reports a table reports no negative allocated amount, no
\* negative used bandwidth and no negative value.  (The program has no step
\* that rejects or clamps an input.)
C7_NoNegativeOutputs ==
    pc = "done" /\ report.header =>
        /\ \A k \in 1..Len(report.rows) : report.rows[k].allocated >= 0
        /\ report.summary[1].used >= 0
        /\ report.summary[1].value.hi >= 0

(* ---- C8 ------------------------------------------------------------------ *)
\* the run read a count <= 0
CountRead == pc \notin {"readBandwidth", "readCount"}

\* C8 as stated: when the count read is <= 0 the run ends with exit status 0,
\* no ranking or allocation step is taken, the pool stays at its initial
\* value, the value achieved is 0, and an empty table is reported.
C8_EmptyTableReported ==
    CountRead /\ numTasks <= 0 =>
        /\ pc = "done"
        /\ exitStatus = 0
        /\ tasks = <<>>
        /\ totalBandwidth = initialBandwidth
        /\ totalPriorityValue = VZero
        /\ report.header /\ report.rows = <<>>

\* C8 (zero-tasks early exit, amended): when the count read is <= 0 the run
\* ends at once with exit status 0: no task is read, ranked or allocated,
\* the pool stays at its initial value, the value achieved is 0, and the
\* only output is the notice "No tasks to allocate. Exiting." -- neither
\* the summary line nor the table is printed.
C8_EarlyExit ==
    CountRead /\ numTasks <= 0 =>
        /\ pc = "done"
        /\ exitStatus = 0
        /\ tasks = <<>>
        /\ totalBandwidth = initialBandwidth
        /\ totalPriorityValue = VZero
        /\ report = [NoReport EXCEPT
                        !.messages = <<"No tasks to allocate. Exiting.">>]

\* a run with bandwidth to hand out that read the count 0
C8_Witness ==
    /\ pc = "done"
    /\ numTasks = 0
    /\ initialBandwidth > 0
    /\ exitStatus = 0

(* ---- C9 ------------------------------------------------------------------ *)
\* C9 (pool monotonicity): on non-negative inputs the pool equals the
\* configured total until the allocation pass begins, no step of the run
\* raises it, it is never negative, and the bandwidth used (initial minus
\* remaining), also as printed in the summary, is the sum of the allocated
\* amounts.
C9_PoolMonotone ==
    /\ [](CountRead =>
            /\ totalBandwidth >= 0
            /\ (pc \in {"malloc", "readTasks"} => totalBandwidth = initialBandwidth)
            /\ initialBandwidth - totalBandwidth = SumAllocated(tasks)
            /\ (report.summary # <<>> =>
                   report.summary[1].used = SumAllocated(tasks)))
    /\ [][/\ pc = "readBandwidth" => totalBandwidth' = initialBandwidth'
          /\ pc # "readBandwidth" => totalBandwidth' <= totalBandwidth]_vars

\* the pool was lowered twice and the summary printed
C9_Witness ==
    /\ pc = "done"
    /\ Len(tasks) = 3
    /\ FullySatisfied(tasks[1])
    /\ FullySatisfied(tasks[2])
    /\ 0 < totalBandwidth
    /\ totalBandwidth < initialBandwidth
    /\ report.summary # <<>>

(* ---- C10 ----------------------------------------------------------------- *)
\* tasks 1..k served in full and credited in full, task k+1 (if any) served
\* in part or not at all and credited (allocated/demand)*priority, the rest
\* served nothing and credited nothing
PrefixShape(k) ==
    /\ \A j \in 1..k : tasks[j].allocated = tasks[j].demand
    /\ \A j \in (k + 2)..Len(tasks) : tasks[j].allocated = 0
    /\ IF k < Len(tasks) /\ tasks[k + 1].demand > 0
       THEN /\ tasks[k + 1].allocated < tasks[k + 1].demand
            /\ ValueIs(SumPriority(SubSeq(tasks, 1, k)) * tasks[k + 1].demand
                          + tasks[k + 1].allocated * tasks[k + 1].priority,
                       tasks[k + 1].demand)
       ELSE /\ k < Len(tasks) => tasks[k + 1].allocated = 0
            /\ ValueIs(SumPriority(SubSeq(tasks, 1, k)), 1)

\* C10 (greedy prefix shape): on non-negative inputs, once the pool is 0 the
\* pass stops and later tasks keep allocated = 0 and add no value; after
\* the pass the ranked array is a prefix of fully satisfied tasks credited
\* their full priority, then at most one partly satisfied task credited
\* (allocated/demand)*priority, then only tasks with allocated = 0.
C10_GreedyPrefix ==
    /\ [](AfterPass => \E k \in 0..Len(tasks) : PrefixShape(k))
    /\ [][pc = "allocate" /\ totalBandwidth = 0 =>
             /\ pc' = "report"
             /\ tasks' = tasks
             /\ totalPriorityValue' = totalPriorityValue]_vars

\* full, part, nothing
C10_Witness ==
    /\ pc = "done"
    /\ Len(tasks) = 3
    /\ FullySatisfied(tasks[1])
    /\ PartlySatisfied(tasks[2])
    /\ tasks[3].demand > 0
    /\ tasks[3].allocated = 0
    /\ tasks[1].priority > 0
    /\ tasks[2].priority > 0

====
